---- MODULE Spec2Model ----
(***************************************************************************)
(* adsb2otel: the poll loop of main (src/unnamed/part_000), the            *)
(* fetch-transform-emit pipeline FetchAndPushLogs and the models package   *)
(* (both in src/pkg/flightdata/flightdata.go), and the logger handle of    *)
(* src/pkg/otel/logs/logs.go.                                              *)
(*                                                                         *)
(* Conventions.  A JSON number is kept in tenths (25000.7 is 250007), so   *)
(* that fractional values, truncation and rounding are computable.  A JSON *)
(* token is a record [k, s, n]: k is its kind, s its text when it is a     *)
(* string, n its value in tenths when it is a number.                      *)
(***************************************************************************)
EXTENDS Integers, Sequences, FiniteSets, TLC

VARIABLES
    loop,            \* main's for/select: "Idle" (blocked in select), "Running" (inside FetchAndPushLogs), "Stopped" (main returned)
    tickerC,         \* number of fires buffered in ticker.C
    sigChan,         \* signals buffered in sigChan
    ctxDone,         \* ctx.Done() is closed
    loggerProvider,  \* logs.globalLoggerProvider: "nil" or "set"
    flightDataURL,   \* FLIGHT_DATA_URL: "valid" or "invalid" (http.NewRequestWithContext rejects it)
    pc,              \* position inside FetchAndPushLogs
    resp,            \* the *http.Response of httpClient.Do
    data,            \* models.Dump1090fa after Decode
    idx,             \* index of the range loop over data.Aircraft (entries already processed)
    emitted,         \* records handed to logger.Emit by the current (or last) invocation
    err,             \* the error FetchAndPushLogs returns ("nil" is no error)
    decodeAttempted, \* json.NewDecoder(resp.Body).Decode was called in this invocation
    lastResult,      \* what main logged for the previous invocation: "none", "ok", "error"
    sigDuringRun,    \* history: a signal was delivered while an invocation was in flight
    sigDelivered,    \* history: a signal was delivered to the process
    inFlight,        \* history: number of FetchAndPushLogs invocations entered and not yet returned
    doCalls,         \* history: calls of httpClient.Do made by the current (or last) invocation
    bodyState,       \* resp.Body of the current (or last) invocation: "none" (no response), "open", "closed"
    fires,           \* history, counted in SpecCounted only: fires of the ticker so far
    starts,          \* history, counted in SpecCounted only: invocations started so far
    prevResp,        \* history, kept in SpecRemember only: the response of the invocation before
    prevEmitted,     \* history, kept in SpecRemember only: the records it emitted
    prevErr,         \* history, kept in SpecRemember only: the error it returned ("none" before any)
    tracingInit,     \* what tracing.InitTracing returned to main: [shutdown, err]; shutdown is "unset" (not called yet), "func" or "nil"
    logsInit,        \* what logs.InitLogs returned to main: [shutdown, err]
    exitStatus,      \* how main ended: "running", "returned" (exit status 0) or "panic"
    lokiCall         \* a call of loki.Client.PushLogs: its receiver, argument, position, locals and result

vars == <<loop, tickerC, sigChan, ctxDone, loggerProvider, flightDataURL, pc, resp, data,
          idx, emitted, err, decodeAttempted, lastResult, sigDuringRun, sigDelivered, inFlight,
          doCalls, bodyState, fires, starts, prevResp, prevEmitted, prevErr,
          tracingInit, logsInit, exitStatus, lokiCall>>

envVars == <<tickerC, sigChan, sigDuringRun, sigDelivered>>
pipeVars == <<pc, resp, data, idx, emitted, err, decodeAttempted, doCalls, bodyState>>
histVars == <<fires, starts, prevResp, prevEmitted, prevErr>>
mainVars == <<tracingInit, logsInit, exitStatus>>

----
\* Bounds of the model

MaxAircraft == 2
MaxTenths == 26
MaxFires == 3
MaxEntries == 2

----
\* Program constants

TickerChanCap == 1
SigChanCap == 1
StatusOK == 200

Signals == {"SIGINT", "SIGTERM"}
StatusCodes == {200, 204, 301, 503}

----
\* JSON tokens

Tok(k, s, n) == [k |-> k, s |-> s, n |-> n]
Absent == Tok("absent", "", 0)
Null == Tok("null", "", 0)
Str(s) == Tok("str", s, 0)
Num(tenths) == Tok("num", "", tenths)
Obj == Tok("obj", "", 0)
Arr == Tok("arr", "", 0)

----
\* package models (flightdata.go:162-276)

Abs(x) == IF x < 0 THEN -x ELSE x

\* fmt.Sprintf("%.0f", n), n in tenths: round to nearest, ties to even, sign kept.
SprintfF0(x) ==
    LET a == Abs(x)
        q == a \div 10
        r == a % 10
        m == IF r > 5 \/ (r = 5 /\ q % 2 = 1) THEN q + 1 ELSE q
    IN  IF x < 0 /\ m = 0 THEN "-0" ELSE IF x < 0 THEN ToString(-m) ELSE ToString(m)

\* fmt.Sprintf("%d", i), i an integer held in tenths.
SprintfD(x) == ToString(x \div 10)

\* A number token whose value the tenths cannot hold, or whose two renderings
\* differ, is kept by its literal (tok.s), with what strconv.ParseFloat(lit, 64)
\* and strconv.ParseInt(lit, 10, 64) make of it and what "%.0f" and "%d" then print:
\* 2^53+1 is not a float64 (the nearest is 2^53), -0 is the float64 -0 and the
\* int64 0, 1e3 is no ParseInt syntax, 1e999 is out of the float64 range.
LiteralNumber(lit) ==
    CASE lit = "9007199254740993" ->
            [floatOk |-> TRUE, f0 |-> "9007199254740992", intOk |-> TRUE, d |-> "9007199254740993"]
      [] lit = "-0" ->
            [floatOk |-> TRUE, f0 |-> "-0", intOk |-> TRUE, d |-> "0"]
      [] lit = "1e3" ->
            [floatOk |-> TRUE, f0 |-> "1000", intOk |-> FALSE, d |-> ""]
      [] lit = "1e999" ->
            [floatOk |-> FALSE, f0 |-> "", intOk |-> FALSE, d |-> ""]

NumLit(lit) == Tok("num", lit, 0)

\* json.Unmarshal(data, &s) for a string, a float64, an int64.
UnmarshalStringOk(tok) == tok.k = "str"
UnmarshalFloat64Ok(tok) == tok.k = "num" /\ (tok.s = "" \/ LiteralNumber(tok.s).floatOk)
UnmarshalInt64Ok(tok) ==
    tok.k = "num" /\ IF tok.s = "" THEN tok.n % 10 = 0 ELSE LiteralNumber(tok.s).intOk

\* fmt.Sprintf("%.0f", n) and fmt.Sprintf("%d", i) of the unmarshalled number.
RenderFloat64(tok) == IF tok.s = "" THEN SprintfF0(tok.n) ELSE LiteralNumber(tok.s).f0
RenderInt64(tok) == IF tok.s = "" THEN SprintfD(tok.n) ELSE LiteralNumber(tok.s).d

\* FlexibleString.UnmarshalJSON: [ok, v].
FlexibleStringUnmarshalJSON(tok) ==
    IF tok.k = "null" THEN [ok |-> TRUE, v |-> ""]
    ELSE IF UnmarshalStringOk(tok) THEN [ok |-> TRUE, v |-> tok.s]
    ELSE IF UnmarshalFloat64Ok(tok) THEN [ok |-> TRUE, v |-> RenderFloat64(tok)]
    ELSE IF UnmarshalInt64Ok(tok) THEN [ok |-> TRUE, v |-> RenderInt64(tok)]
    ELSE [ok |-> FALSE, v |-> ""]

\* encoding/json into a Go string field: a missing key or null leaves the zero value.
DecodeString(tok) ==
    IF tok.k \in {"absent", "null"} THEN [ok |-> TRUE, v |-> ""]
    ELSE IF tok.k = "str" THEN [ok |-> TRUE, v |-> tok.s]
    ELSE [ok |-> FALSE, v |-> ""]

\* encoding/json into a Go float64 field (value kept in tenths).
DecodeFloat64(tok) ==
    IF tok.k \in {"absent", "null"} THEN [ok |-> TRUE, v |-> 0]
    ELSE IF tok.k = "num" /\ tok.s = "" THEN [ok |-> TRUE, v |-> tok.n]
    ELSE [ok |-> FALSE, v |-> 0]

\* encoding/json into a FlexibleString field: UnmarshalJSON runs on every token present.
DecodeFlexibleString(tok) ==
    IF tok.k = "absent" THEN [ok |-> TRUE, v |-> ""] ELSE FlexibleStringUnmarshalJSON(tok)

\* One element of Dump1090fa.Aircraft, decoded from a JSON object whose members are
\* the tokens of raw; the fields FetchAndPushLogs reads.
DecodeAircraft(raw) ==
    LET h == DecodeString(raw.hex)
        t == DecodeString(raw.type)
        f == DecodeString(raw.flight)
        a == DecodeFlexibleString(raw.alt_baro)
        s == DecodeString(raw.squawk)
        la == DecodeFloat64(raw.lat)
        lo == DecodeFloat64(raw.lon)
    IN  [ok |-> h.ok /\ t.ok /\ f.ok /\ a.ok /\ s.ok /\ la.ok /\ lo.ok,
         v |-> [Hex |-> h.v, Type |-> t.v, Flight |-> f.v, AltBaro |-> a.v,
                Squawk |-> s.v, Lat |-> la.v, Lon |-> lo.v]]

\* json.NewDecoder(body).Decode(&data): [ok, v], v the Dump1090fa value.
DecodeDump1090fa(body) ==
    LET n == DecodeFloat64(body.now)
        ds == [i \in 1..Len(body.aircraft) |-> DecodeAircraft(body.aircraft[i])]
    IN  [ok |-> body.wellFormed /\ n.ok /\ \A i \in 1..Len(ds) : ds[i].ok,
         v |-> [Now |-> n.v, Aircraft |-> [i \in 1..Len(ds) |-> ds[i].v]]]

----
\* The record FetchAndPushLogs builds for one aircraft (flightdata.go:104-147)

\* json.Marshal(aircraft): the JSON object, members tagged omitempty left out when
\* they hold the zero value; a FlexibleString is written as a JSON string.
MarshalAircraft(aircraft) ==
    [hex |-> Str(aircraft.Hex),
     type |-> Str(aircraft.Type),
     flight |-> IF aircraft.Flight = "" THEN Absent ELSE Str(aircraft.Flight),
     alt_baro |-> IF aircraft.AltBaro = "" THEN Absent ELSE Str(aircraft.AltBaro),
     squawk |-> IF aircraft.Squawk = "" THEN Absent ELSE Str(aircraft.Squawk),
     lat |-> IF aircraft.Lat = 0 THEN Absent ELSE Num(aircraft.Lat),
     lon |-> IF aircraft.Lon = 0 THEN Absent ELSE Num(aircraft.Lon)]

\* otellog.String(key, value) and otellog.Float64(key, value)
KVString(key, value) == [key |-> key, kind |-> "String", s |-> value, f |-> 0]
KVFloat64(key, value) == [key |-> key, kind |-> "Float64", s |-> "", f |-> value]

\* attrs = append(attrs, kv) when cond holds
AppendIf(attrs, cond, kv) == IF cond THEN Append(attrs, kv) ELSE attrs

\* Mutant of BuildAttrs: lat and lon are added together, whenever a position is
\* known (either is non-zero).
BuildAttrsPosition(aircraft) ==
    LET hasPos == aircraft.Lat # 0 \/ aircraft.Lon # 0
        a0 == <<KVString("service", "adsb"),
                KVString("aircraft.hex", aircraft.Hex),
                KVString("aircraft.type", aircraft.Type)>>
        a1 == AppendIf(a0, aircraft.Flight # "", KVString("aircraft.flight", aircraft.Flight))
        a2 == AppendIf(a1, hasPos, KVFloat64("aircraft.lat", aircraft.Lat))
        a3 == AppendIf(a2, hasPos, KVFloat64("aircraft.lon", aircraft.Lon))
        a4 == AppendIf(a3, aircraft.AltBaro # "", KVString("aircraft.alt_baro", aircraft.AltBaro))
        a5 == AppendIf(a4, aircraft.Squawk # "", KVString("aircraft.squawk", aircraft.Squawk))
    IN  a5

\* The attrs slice of one record.
BuildAttrs(aircraft) ==
    LET a0 == <<KVString("service", "adsb"),
                KVString("aircraft.hex", aircraft.Hex),
                KVString("aircraft.type", aircraft.Type)>>
        a1 == AppendIf(a0, aircraft.Flight # "", KVString("aircraft.flight", aircraft.Flight))
        a2 == AppendIf(a1, aircraft.Lat # 0, KVFloat64("aircraft.lat", aircraft.Lat))
        a3 == AppendIf(a2, aircraft.Lon # 0, KVFloat64("aircraft.lon", aircraft.Lon))
        a4 == AppendIf(a3, aircraft.AltBaro # "", KVString("aircraft.alt_baro", aircraft.AltBaro))
        a5 == AppendIf(a4, aircraft.Squawk # "", KVString("aircraft.squawk", aircraft.Squawk))
    IN  a5

\* time.Unix(int64(data.Now), 0): the conversion truncates toward zero; whole seconds.
UnixTimestamp(now) == IF now < 0 THEN -(Abs(now) \div 10) ELSE now \div 10

\* The otellog.Record handed to logger.Emit.
BuildRecord(aircraft, timestamp) ==
    [Timestamp |-> timestamp,
     Severity |-> "SeverityInfo",
     Body |-> MarshalAircraft(aircraft),
     Attrs |-> BuildAttrs(aircraft)]

----
\* What the receiver can answer

RawAircraft(hex, flight, alt, squawk, lat, lon) ==
    [hex |-> Str(hex), type |-> Str("adsb_icao"), flight |-> flight, alt_baro |-> alt,
     squawk |-> squawk, lat |-> lat, lon |-> lon]

\* JSON objects of the aircraft array: the entry of the spec's scenario (lat and lon
\* zero), an airborne one with every optional member, one on the ground, and one
\* whose alt_baro is an object.
PollAircraft ==
    {RawAircraft("abc123", Absent, Absent, Absent, Num(0), Num(0)),
     RawAircraft("def456", Str("BAW1"), Num(250007), Str("7000"), Num(515), Num(-1)),
     RawAircraft("0a1b2c", Absent, Str("ground"), Null, Num(515), Absent),
     RawAircraft("ffffff", Absent, Obj, Absent, Absent, Absent)}

SeqsUpTo(S, n) == UNION {[1..m -> S] : m \in 0..n}

NowTokens == {Num(17000), Num(17019)}

MalformedBody == [wellFormed |-> FALSE, now |-> Absent, aircraft |-> <<>>]

Bodies ==
    {MalformedBody} \cup
    [wellFormed : {TRUE}, now : NowTokens, aircraft : SeqsUpTo(PollAircraft, MaxAircraft)]

\* Every combination of the optional members of one aircraft object: left out, null,
\* zero or empty, and set.
EveryRawAircraft ==
    {RawAircraft("abc123", flight, alt, squawk, lat, lon) :
        flight \in {Absent, Str(""), Str("BAW1")},
        alt \in {Absent, Null, Str(""), Str("ground"), Num(0), Num(250007)},
        squawk \in {Absent, Str("7000")},
        lat \in {Absent, Num(0), Num(515)},
        lon \in {Num(0), Num(-1)}}

\* The documents with one aircraft object.
EveryAircraftBodies ==
    [wellFormed : {TRUE}, now : {Num(17009)}, aircraft : {<<raw>> : raw \in EveryRawAircraft}]

\* The alt_baro tokens: null, strings, every number of up to MaxTenths tenths either
\* side of zero, the spec's 25000 and 25000.7, a tie above them, the literal
\* numbers, an object and an array.
AltBaroTokens ==
    {Null, Str(""), Str("ground"), Str("25000"), Obj, Arr}
    \cup {Num(n) : n \in (-MaxTenths..MaxTenths) \cup {250000, 250007, 250015}}
    \cup {NumLit(lit) : lit \in {"9007199254740993", "-0", "1e3", "1e999"}}

\* The documents with one aircraft object that has an alt_baro member.
AltBaroBodies ==
    [wellFormed : {TRUE}, now : {Num(17009)},
     aircraft : {<<RawAircraft("abc123", Absent, alt, Absent, Absent, Absent)>> :
                    alt \in AltBaroTokens}]

\* No call of PushLogs has been made.
NoReq == [method |-> "", url |-> "", body |-> <<>>, basicAuth |-> FALSE]
NoCall ==
    [pc |-> "none", url |-> "", auth |-> FALSE, entries |-> <<>>, streams |-> <<>>,
     req |-> NoReq, posts |-> <<>>, status |-> 0, err |-> "nil",
     marshalOk |-> TRUE, requestOk |-> TRUE, sendOk |-> TRUE]

NoResp == [status |-> 0, body |-> MalformedBody]
NoData == [Now |-> 0, Aircraft |-> <<>>]

----
\* main (part_000:17-80) after its initialisers: logs.InitLogs has either stored a
\* provider or left globalLoggerProvider nil (logs.go:25-132); the ticker and the
\* signal channel are empty; nobody has called cancel.

Init ==
    /\ loop = "Idle"
    /\ tickerC = 0
    /\ sigChan = <<>>
    /\ ctxDone = FALSE
    /\ loggerProvider \in {"nil", "set"}
    /\ flightDataURL \in {"valid", "invalid"}
    /\ pc = "idle"
    /\ resp = NoResp
    /\ data = NoData
    /\ idx = 0
    /\ emitted = <<>>
    /\ err = "nil"
    /\ decodeAttempted = FALSE
    /\ lastResult = "none"
    /\ sigDuringRun = FALSE
    /\ sigDelivered = FALSE
    /\ inFlight = 0
    /\ doCalls = 0
    /\ bodyState = "none"
    /\ fires = 0
    /\ starts = 0
    /\ prevResp = NoResp
    /\ prevEmitted = <<>>
    /\ prevErr = "none"
    /\ tracingInit = [shutdown |-> "func", err |-> FALSE]
    /\ logsInit = [shutdown |-> "func", err |-> FALSE]
    /\ exitStatus = "running"
    /\ lokiCall = NoCall

----
\* The environment of the loop

\* Mutant of TickerFireStep: ticker.C queues every fire instead of dropping the ones
\* that find it full.
TickerFireStepQueued ==
    /\ loop \in {"Idle", "Running"}
    /\ tickerC' = tickerC + 1
    /\ UNCHANGED <<loop, sigChan, ctxDone, loggerProvider, flightDataURL, lastResult,
                   sigDuringRun, sigDelivered, inFlight>>
    /\ UNCHANGED pipeVars
    /\ UNCHANGED mainVars
    /\ UNCHANGED lokiCall

\* The runtime's ticker sends on ticker.C without blocking: a fire is dropped when
\* the buffer (one slot) is full.  ticker.Stop is deferred to main's return.
TickerFireStep ==
    /\ loop \in {"Idle", "Running"}
    /\ tickerC' = IF tickerC < TickerChanCap THEN tickerC + 1 ELSE tickerC
    /\ UNCHANGED <<loop, sigChan, ctxDone, loggerProvider, flightDataURL, lastResult,
                   sigDuringRun, sigDelivered, inFlight>>
    /\ UNCHANGED pipeVars
    /\ UNCHANGED mainVars
    /\ UNCHANGED lokiCall

TickerFire == TickerFireStep /\ UNCHANGED histVars

\* Mutant of SignalArrive: sigChan is made without a buffer, so the non-blocking send
\* of os/signal succeeds only while main is waiting in select.
SignalArriveUnbuffered ==
    /\ loop \in {"Idle", "Running"}
    /\ \E sig \in Signals :
          sigChan' = IF loop = "Idle" /\ Len(sigChan) < SigChanCap
                        THEN Append(sigChan, sig) ELSE sigChan
    /\ sigDelivered' = TRUE
    /\ sigDuringRun' = (sigDuringRun \/ loop = "Running")
    /\ UNCHANGED <<loop, tickerC, ctxDone, loggerProvider, flightDataURL, lastResult, inFlight>>
    /\ UNCHANGED pipeVars
    /\ UNCHANGED histVars
    /\ UNCHANGED lokiCall
    /\ UNCHANGED mainVars

\* os/signal delivers SIGINT or SIGTERM to sigChan without blocking.
SignalArrive ==
    /\ loop \in {"Idle", "Running"}
    /\ \E sig \in Signals :
          sigChan' = IF Len(sigChan) < SigChanCap THEN Append(sigChan, sig) ELSE sigChan
    /\ sigDelivered' = TRUE
    /\ sigDuringRun' = (sigDuringRun \/ loop = "Running")
    /\ UNCHANGED <<loop, tickerC, ctxDone, loggerProvider, flightDataURL, lastResult, inFlight>>
    /\ UNCHANGED pipeVars
    /\ UNCHANGED histVars
    /\ UNCHANGED lokiCall
    /\ UNCHANGED mainVars

----
\* The select of main's loop (part_000:60-79).  The loop is blocked in select exactly
\* when it is Idle; a ready case is chosen without any priority.

\* Mutant of SelectTick: the pipeline is dispatched on every fire (go FetchAndPushLogs),
\* whether or not the previous invocation has returned.
SelectTickConcurrent ==
    /\ loop \in {"Idle", "Running"}
    /\ tickerC > 0
    /\ tickerC' = tickerC - 1
    /\ loop' = "Running"
    /\ inFlight' = inFlight + 1
    /\ pc' = "newRequest"
    /\ resp' = NoResp
    /\ data' = NoData
    /\ idx' = 0
    /\ emitted' = <<>>
    /\ err' = "nil"
    /\ decodeAttempted' = FALSE
    /\ doCalls' = 0
    /\ bodyState' = "none"
    /\ UNCHANGED <<sigChan, ctxDone, loggerProvider, flightDataURL, lastResult,
                   sigDuringRun, sigDelivered>>
    /\ UNCHANGED histVars
    /\ UNCHANGED lokiCall
    /\ UNCHANGED mainVars

\* Mutant of SelectTick: the signal case leaves the select only (break for return),
\* so the loop goes on servicing fires after it has reached Stopped.
SelectTickAfterStop ==
    /\ loop \in {"Idle", "Stopped"}
    /\ tickerC > 0
    /\ tickerC' = tickerC - 1
    /\ loop' = "Running"
    /\ inFlight' = inFlight + 1
    /\ pc' = "newRequest"
    /\ resp' = NoResp
    /\ data' = NoData
    /\ idx' = 0
    /\ emitted' = <<>>
    /\ err' = "nil"
    /\ decodeAttempted' = FALSE
    /\ doCalls' = 0
    /\ bodyState' = "none"
    /\ UNCHANGED <<sigChan, ctxDone, loggerProvider, flightDataURL, lastResult,
                   sigDuringRun, sigDelivered>>
    /\ UNCHANGED histVars
    /\ UNCHANGED lokiCall
    /\ UNCHANGED mainVars

\* Mutant of SelectTickStep: the select has a default case that polls at once, so an
\* invocation starts in Idle whether or not the ticker has fired.
SelectTickStepBusy ==
    /\ loop = "Idle"
    /\ tickerC' = IF tickerC > 0 THEN tickerC - 1 ELSE tickerC
    /\ loop' = "Running"
    /\ inFlight' = inFlight + 1
    /\ pc' = "newRequest"
    /\ resp' = NoResp
    /\ data' = NoData
    /\ idx' = 0
    /\ emitted' = <<>>
    /\ err' = "nil"
    /\ decodeAttempted' = FALSE
    /\ doCalls' = 0
    /\ bodyState' = "none"
    /\ UNCHANGED <<sigChan, ctxDone, loggerProvider, flightDataURL, lastResult,
                   sigDuringRun, sigDelivered>>
    /\ UNCHANGED mainVars
    /\ UNCHANGED lokiCall

\* case <-ticker.C: call flightdata.FetchAndPushLogs(ctx)
SelectTickStep ==
    /\ loop = "Idle"
    /\ tickerC > 0
    /\ tickerC' = tickerC - 1
    /\ loop' = "Running"
    /\ inFlight' = inFlight + 1
    /\ pc' = "newRequest"
    /\ resp' = NoResp
    /\ data' = NoData
    /\ idx' = 0
    /\ emitted' = <<>>
    /\ err' = "nil"
    /\ decodeAttempted' = FALSE
    /\ doCalls' = 0
    /\ bodyState' = "none"
    /\ UNCHANGED <<sigChan, ctxDone, loggerProvider, flightDataURL, lastResult,
                   sigDuringRun, sigDelivered>>
    /\ UNCHANGED mainVars
    /\ UNCHANGED lokiCall

SelectTick == SelectTickStep /\ UNCHANGED histVars

\* main returns: its deferred calls run last in, first out (ticker.Stop, shutdownLogs,
\* shutdownTracing, cancel).  Calling a nil function value panics; the calls deferred
\* before it still run, and the process then ends with the panic.
RunDeferred ==
    IF logsInit.shutdown = "nil" \/ tracingInit.shutdown = "nil" THEN "panic" ELSE "returned"

\* Mutant of SelectSig: the signal ends main at once, also in the middle of an
\* invocation.
SelectSigAbort ==
    /\ loop \in {"Idle", "Running"}
    /\ Len(sigChan) > 0
    /\ sigChan' = Tail(sigChan)
    /\ loop' = "Stopped"
    /\ ctxDone' = TRUE
    /\ UNCHANGED <<tickerC, loggerProvider, flightDataURL, lastResult, sigDuringRun,
                   sigDelivered, inFlight>>
    /\ UNCHANGED pipeVars
    /\ UNCHANGED histVars
    /\ UNCHANGED lokiCall
    /\ exitStatus' = RunDeferred
    /\ UNCHANGED <<tracingInit, logsInit>>

\* case sig := <-sigChan: return; the deferred cancel() then closes ctx.Done().
SelectSig ==
    /\ loop = "Idle"
    /\ Len(sigChan) > 0
    /\ sigChan' = Tail(sigChan)
    /\ loop' = "Stopped"
    /\ ctxDone' = TRUE
    /\ UNCHANGED <<tickerC, loggerProvider, flightDataURL, lastResult, sigDuringRun,
                   sigDelivered, inFlight>>
    /\ UNCHANGED pipeVars
    /\ UNCHANGED histVars
    /\ UNCHANGED lokiCall
    /\ exitStatus' = RunDeferred
    /\ UNCHANGED <<tracingInit, logsInit>>

\* case <-ctx.Done(): return.  cancel is called by main's deferred call only
\* (part_000:32-33), so ctx.Done() is never ready while the loop selects and this
\* case is no disjunct of Next (see CtxDoneOnlyAfterReturn).
SelectCtxDone ==
    /\ loop = "Idle"
    /\ ctxDone
    /\ loop' = "Stopped"
    /\ UNCHANGED <<tickerC, sigChan, ctxDone, loggerProvider, flightDataURL, lastResult,
                   sigDuringRun, sigDelivered, inFlight>>
    /\ UNCHANGED pipeVars
    /\ UNCHANGED histVars
    /\ UNCHANGED lokiCall
    /\ exitStatus' = RunDeferred
    /\ UNCHANGED <<tracingInit, logsInit>>

----
\* FetchAndPushLogs (flightdata.go:30-160), one action per step

loopVars == <<loop, tickerC, sigChan, ctxDone, loggerProvider, flightDataURL, lastResult,
              sigDuringRun, sigDelivered, inFlight>>

\* http.NewRequestWithContext(ctx, "GET", flightDataURL, nil)
NewRequest ==
    /\ pc = "newRequest"
    /\ IF flightDataURL = "invalid"
          THEN err' = "failed to create request" /\ pc' = "return"
          ELSE err' = err /\ pc' = "do"
    /\ UNCHANGED <<resp, data, idx, emitted, decodeAttempted>>
    /\ UNCHANGED <<doCalls, bodyState>>
    /\ UNCHANGED loopVars
    /\ UNCHANGED histVars
    /\ UNCHANGED lokiCall
    /\ UNCHANGED mainVars

\* Mutant of HttpDoFrom: a transport error is retried once before the invocation
\* gives up.
HttpDoFromRetry(statuses, bodies) ==
    /\ pc = "do"
    /\ doCalls' = doCalls + 1
    /\ \/ /\ doCalls = 0
          /\ UNCHANGED <<err, pc, resp, bodyState>>
       \/ /\ doCalls > 0
          /\ err' = "failed to fetch dump1090-fa data"
          /\ pc' = "return"
          /\ resp' = resp
          /\ bodyState' = bodyState
       \/ /\ \E st \in statuses, b \in bodies : resp' = [status |-> st, body |-> b]
          /\ pc' = "checkStatus"
          /\ err' = err
          /\ bodyState' = "open"
    /\ UNCHANGED <<data, idx, emitted, decodeAttempted>>
    /\ UNCHANGED loopVars
    /\ UNCHANGED histVars
    /\ UNCHANGED lokiCall
    /\ UNCHANGED mainVars

\* httpClient.Do(req): a transport error, or a response with one of statuses and a
\* body out of bodies.
HttpDoFrom(statuses, bodies) ==
    /\ pc = "do"
    /\ doCalls' = doCalls + 1
    /\ \/ /\ err' = "failed to fetch dump1090-fa data"
          /\ pc' = "return"
          /\ resp' = resp
          /\ bodyState' = bodyState
       \/ /\ \E st \in statuses, b \in bodies : resp' = [status |-> st, body |-> b]
          /\ pc' = "checkStatus"
          /\ err' = err
          /\ bodyState' = "open"
    /\ UNCHANGED <<data, idx, emitted, decodeAttempted>>
    /\ UNCHANGED loopVars
    /\ UNCHANGED histVars
    /\ UNCHANGED lokiCall
    /\ UNCHANGED mainVars

HttpDo == HttpDoFrom(StatusCodes, Bodies)

\* Mutant of CheckStatus: every 2xx status is accepted.
CheckStatusAny2xx ==
    /\ pc = "checkStatus"
    /\ IF resp.status < 200 \/ resp.status >= 300
          THEN err' = "HTTP request failed with status" /\ pc' = "return"
          ELSE err' = err /\ pc' = "decode"
    /\ UNCHANGED <<resp, data, idx, emitted, decodeAttempted>>
    /\ UNCHANGED <<doCalls, bodyState>>
    /\ UNCHANGED loopVars
    /\ UNCHANGED histVars
    /\ UNCHANGED lokiCall
    /\ UNCHANGED mainVars

\* if resp.StatusCode != http.StatusOK { return err }
CheckStatus ==
    /\ pc = "checkStatus"
    /\ IF resp.status # StatusOK
          THEN err' = "HTTP request failed with status" /\ pc' = "return"
          ELSE err' = err /\ pc' = "decode"
    /\ UNCHANGED <<resp, data, idx, emitted, decodeAttempted>>
    /\ UNCHANGED <<doCalls, bodyState>>
    /\ UNCHANGED loopVars
    /\ UNCHANGED histVars
    /\ UNCHANGED lokiCall
    /\ UNCHANGED mainVars

\* json.NewDecoder(resp.Body).Decode(&data)
DecodeBody ==
    /\ pc = "decode"
    /\ decodeAttempted' = TRUE
    /\ LET d == DecodeDump1090fa(resp.body)
       IN  IF d.ok
              THEN data' = d.v /\ err' = err /\ pc' = "getLogger"
              ELSE data' = data /\ err' = "failed to decode dump1090-fa data" /\ pc' = "return"
    /\ UNCHANGED <<resp, idx, emitted>>
    /\ UNCHANGED <<doCalls, bodyState>>
    /\ UNCHANGED loopVars
    /\ UNCHANGED histVars
    /\ UNCHANGED lokiCall
    /\ UNCHANGED mainVars

\* Mutant of GetLogger: a missing logger is reported as an error of the invocation.
GetLoggerRequired ==
    /\ pc = "getLogger"
    /\ pc' = IF loggerProvider = "nil" THEN "return" ELSE "range"
    /\ err' = IF loggerProvider = "nil" THEN "logger not initialized" ELSE err
    /\ UNCHANGED <<resp, data, idx, emitted, decodeAttempted>>
    /\ UNCHANGED <<doCalls, bodyState>>
    /\ UNCHANGED loopVars
    /\ UNCHANGED histVars
    /\ UNCHANGED lokiCall
    /\ UNCHANGED mainVars

\* logger := logs.GetLogger("flightdata"); if logger == nil { return nil }
GetLogger ==
    /\ pc = "getLogger"
    /\ pc' = IF loggerProvider = "nil" THEN "return" ELSE "range"
    /\ UNCHANGED <<resp, data, idx, emitted, err, decodeAttempted>>
    /\ UNCHANGED <<doCalls, bodyState>>
    /\ UNCHANGED loopVars
    /\ UNCHANGED histVars
    /\ UNCHANGED lokiCall
    /\ UNCHANGED mainVars

\* Mutant of RangeAircraft: the loop stops one entry short (i < len-1).
RangeAircraftOffByOne ==
    /\ pc = "range"
    /\ IF idx < Len(data.Aircraft) - 1
          THEN \E marshalOk \in BOOLEAN :
                  IF marshalOk
                     THEN /\ emitted' = Append(emitted,
                                  BuildRecord(data.Aircraft[idx + 1], UnixTimestamp(data.Now)))
                          /\ idx' = idx + 1
                          /\ UNCHANGED <<err, pc>>
                     ELSE /\ err' = "failed to marshal aircraft data"
                          /\ pc' = "return"
                          /\ UNCHANGED <<emitted, idx>>
          ELSE pc' = "return" /\ UNCHANGED <<emitted, idx, err>>
    /\ UNCHANGED <<resp, data, decodeAttempted>>
    /\ UNCHANGED <<doCalls, bodyState>>
    /\ UNCHANGED loopVars
    /\ UNCHANGED histVars
    /\ UNCHANGED lokiCall
    /\ UNCHANGED mainVars

\* Mutant of RangeAircraft: the record is emitted before the error of json.Marshal
\* is looked at.
RangeAircraftEmitThenCheck ==
    /\ pc = "range"
    /\ IF idx < Len(data.Aircraft)
          THEN \E marshalOk \in BOOLEAN :
                  /\ emitted' = Append(emitted,
                          BuildRecord(data.Aircraft[idx + 1], UnixTimestamp(data.Now)))
                  /\ idx' = idx + 1
                  /\ IF marshalOk
                        THEN UNCHANGED <<err, pc>>
                        ELSE err' = "failed to marshal aircraft data" /\ pc' = "return"
          ELSE pc' = "return" /\ UNCHANGED <<emitted, idx, err>>
    /\ UNCHANGED <<resp, data, decodeAttempted>>
    /\ UNCHANGED <<doCalls, bodyState>>
    /\ UNCHANGED loopVars
    /\ UNCHANGED histVars
    /\ UNCHANGED lokiCall
    /\ UNCHANGED mainVars

\* Mutant of RangeAircraft: a failed json.Marshal skips the entry (continue) and the
\* loop goes on with the next one.
RangeAircraftContinue ==
    /\ pc = "range"
    /\ IF idx < Len(data.Aircraft)
          THEN \E marshalOk \in BOOLEAN :
                  IF marshalOk
                     THEN /\ emitted' = Append(emitted,
                                  BuildRecord(data.Aircraft[idx + 1], UnixTimestamp(data.Now)))
                          /\ idx' = idx + 1
                          /\ UNCHANGED <<err, pc>>
                     ELSE /\ err' = "failed to marshal aircraft data"
                          /\ idx' = idx + 1
                          /\ UNCHANGED <<emitted, pc>>
          ELSE pc' = "return" /\ UNCHANGED <<emitted, idx, err>>
    /\ UNCHANGED <<resp, data, decodeAttempted>>
    /\ UNCHANGED <<doCalls, bodyState>>
    /\ UNCHANGED loopVars
    /\ UNCHANGED histVars
    /\ UNCHANGED lokiCall
    /\ UNCHANGED mainVars

\* Mutant of RangeAircraft: an aircraft emitted by the invocation before is skipped
\* (deduplication by hex across ticks).
RangeAircraftDedup ==
    /\ pc = "range"
    /\ IF idx < Len(data.Aircraft)
          THEN IF \E j \in 1..Len(prevEmitted) :
                      prevEmitted[j].Body.hex = Str(data.Aircraft[idx + 1].Hex)
                  THEN idx' = idx + 1 /\ UNCHANGED <<emitted, err, pc>>
                  ELSE \E marshalOk \in BOOLEAN :
                          IF marshalOk
                             THEN /\ emitted' = Append(emitted,
                                          BuildRecord(data.Aircraft[idx + 1], UnixTimestamp(data.Now)))
                                  /\ idx' = idx + 1
                                  /\ UNCHANGED <<err, pc>>
                             ELSE /\ err' = "failed to marshal aircraft data"
                                  /\ pc' = "return"
                                  /\ UNCHANGED <<emitted, idx>>
          ELSE pc' = "return" /\ UNCHANGED <<emitted, idx, err>>
    /\ UNCHANGED <<resp, data, decodeAttempted>>
    /\ UNCHANGED <<doCalls, bodyState>>
    /\ UNCHANGED loopVars
    /\ UNCHANGED histVars
    /\ UNCHANGED lokiCall
    /\ UNCHANGED mainVars

\* Mutant of RangeAircraft: each record is stamped when it is built, one second
\* after the one before it, instead of with the time of the document.
RangeAircraftOwnClock ==
    /\ pc = "range"
    /\ IF idx < Len(data.Aircraft)
          THEN \E marshalOk \in BOOLEAN :
                  IF marshalOk
                     THEN /\ emitted' = Append(emitted,
                                  BuildRecord(data.Aircraft[idx + 1], UnixTimestamp(data.Now) + idx))
                          /\ idx' = idx + 1
                          /\ UNCHANGED <<err, pc>>
                     ELSE /\ err' = "failed to marshal aircraft data"
                          /\ pc' = "return"
                          /\ UNCHANGED <<emitted, idx>>
          ELSE pc' = "return" /\ UNCHANGED <<emitted, idx, err>>
    /\ UNCHANGED <<resp, data, decodeAttempted>>
    /\ UNCHANGED <<doCalls, bodyState>>
    /\ UNCHANGED loopVars
    /\ UNCHANGED histVars
    /\ UNCHANGED lokiCall
    /\ UNCHANGED mainVars

\* One iteration of for i, aircraft := range data.Aircraft, or the end of the loop.
\* json.Marshal is library code: its error return is an outcome the code handles.
RangeAircraft ==
    /\ pc = "range"
    /\ IF idx < Len(data.Aircraft)
          THEN \E marshalOk \in BOOLEAN :
                  IF marshalOk
                     THEN /\ emitted' = Append(emitted,
                                  BuildRecord(data.Aircraft[idx + 1], UnixTimestamp(data.Now)))
                          /\ idx' = idx + 1
                          /\ UNCHANGED <<err, pc>>
                     ELSE /\ err' = "failed to marshal aircraft data"
                          /\ pc' = "return"
                          /\ UNCHANGED <<emitted, idx>>
          ELSE pc' = "return" /\ UNCHANGED <<emitted, idx, err>>
    /\ UNCHANGED <<resp, data, decodeAttempted>>
    /\ UNCHANGED <<doCalls, bodyState>>
    /\ UNCHANGED loopVars
    /\ UNCHANGED histVars
    /\ UNCHANGED lokiCall
    /\ UNCHANGED mainVars

\* Mutant of Return: the response body is closed on the successful path only.
ReturnLeak ==
    /\ pc = "return"
    /\ pc' = "idle"
    /\ loop' = "Idle"
    /\ inFlight' = inFlight - 1
    /\ lastResult' = IF err = "nil" THEN "ok" ELSE "error"
    /\ UNCHANGED <<tickerC, sigChan, ctxDone, loggerProvider, flightDataURL, sigDuringRun,
                   sigDelivered>>
    /\ bodyState' = IF bodyState = "open" /\ err = "nil" THEN "closed" ELSE bodyState
    /\ UNCHANGED <<resp, data, idx, emitted, err, decodeAttempted, doCalls>>
    /\ UNCHANGED histVars
    /\ UNCHANGED lokiCall
    /\ UNCHANGED mainVars

\* Mutant of Return: main treats an error of the pipeline as fatal and returns.
ReturnFatal ==
    /\ pc = "return"
    /\ pc' = "idle"
    /\ loop' = IF err = "nil" THEN "Idle" ELSE "Stopped"
    /\ inFlight' = inFlight - 1
    /\ lastResult' = IF err = "nil" THEN "ok" ELSE "error"
    /\ UNCHANGED <<tickerC, sigChan, ctxDone, loggerProvider, flightDataURL, sigDuringRun,
                   sigDelivered>>
    /\ bodyState' = IF bodyState = "open" THEN "closed" ELSE bodyState
    /\ UNCHANGED <<resp, data, idx, emitted, err, decodeAttempted, doCalls>>
    /\ UNCHANGED histVars
    /\ UNCHANGED lokiCall
    /\ UNCHANGED mainVars

\* FetchAndPushLogs returns to main, which logs the result and selects again
\* (part_000:65-69).
Return ==
    /\ pc = "return"
    /\ pc' = "idle"
    /\ loop' = "Idle"
    /\ inFlight' = inFlight - 1
    /\ lastResult' = IF err = "nil" THEN "ok" ELSE "error"
    /\ UNCHANGED <<tickerC, sigChan, ctxDone, loggerProvider, flightDataURL, sigDuringRun,
                   sigDelivered>>
    /\ bodyState' = IF bodyState = "open" THEN "closed" ELSE bodyState
    /\ UNCHANGED <<resp, data, idx, emitted, err, decodeAttempted, doCalls>>
    /\ UNCHANGED histVars
    /\ UNCHANGED lokiCall
    /\ UNCHANGED mainVars

Pipeline == NewRequest \/ HttpDo \/ CheckStatus \/ DecodeBody \/ GetLogger \/ RangeAircraft \/ Return

Next == TickerFire \/ SignalArrive \/ SelectTick \/ SelectSig \/ Pipeline

Spec == Init /\ [][Next]_vars

\* Every step of an invocation is taken (the invocation terminates: httpClient has a
\* 30 s timeout and the range loop is finite), and select, which picks among its
\* ready cases at random, does not pass over a ready signal forever.
FairSpec == Spec /\ WF_vars(Pipeline) /\ SF_vars(SelectSig)

\* The same program, polling a receiver that answers with any one-aircraft document.
HttpDoEvery == HttpDoFrom(StatusCodes, EveryAircraftBodies)

NextEvery ==
    \/ TickerFire \/ SignalArrive \/ SelectTick \/ SelectSig
    \/ NewRequest \/ HttpDoEvery \/ CheckStatus \/ DecodeBody \/ GetLogger \/ RangeAircraft \/ Return

SpecEveryAircraft == Init /\ [][NextEvery]_vars

\* The same program, polling a receiver whose one aircraft has any alt_baro token.
HttpDoAltBaro == HttpDoFrom(StatusCodes, AltBaroBodies)

NextAltBaro ==
    \/ TickerFire \/ SignalArrive \/ SelectTick \/ SelectSig
    \/ NewRequest \/ HttpDoAltBaro \/ CheckStatus \/ DecodeBody \/ GetLogger \/ RangeAircraft \/ Return

SpecEveryAltBaro == Init /\ [][NextAltBaro]_vars

\* The loop with the fires of the ticker and the invocations started counted, over
\* a receiver that answers 200 or 503 with a malformed body, an empty document or a
\* document of one entry.
CountedBodies ==
    {MalformedBody} \cup
    [wellFormed : {TRUE}, now : {Num(17000)},
     aircraft : {<<>>, <<RawAircraft("abc123", Absent, Absent, Absent, Num(0), Num(0))>>}]

HttpDoCounted == HttpDoFrom({StatusOK, 503}, CountedBodies)

TickerFireCounted ==
    /\ fires < MaxFires
    /\ TickerFireStep
    /\ fires' = fires + 1
    /\ UNCHANGED <<starts, prevResp, prevEmitted, prevErr>>

SelectTickCounted ==
    /\ SelectTickStep
    /\ starts' = starts + 1
    /\ UNCHANGED <<fires, prevResp, prevEmitted, prevErr>>

NextCounted ==
    \/ TickerFireCounted \/ SignalArrive \/ SelectTickCounted \/ SelectSig
    \/ NewRequest \/ HttpDoCounted \/ CheckStatus \/ DecodeBody \/ GetLogger
    \/ RangeAircraft \/ Return

SpecCounted == Init /\ [][NextCounted]_vars

\* The loop with the outcome of the invocation before remembered, over a receiver
\* that answers 200 or 503 with a malformed body or a document listing none, one or
\* both of two aircraft, in either order.
RememberBodies ==
    LET a == RawAircraft("abc123", Absent, Absent, Absent, Num(0), Num(0))
        b == RawAircraft("def456", Str("BAW1"), Num(250007), Str("7000"), Num(515), Num(-1))
    IN  {MalformedBody} \cup
        [wellFormed : {TRUE}, now : NowTokens, aircraft : {<<>>, <<a>>, <<a, b>>, <<b, a>>}]

HttpDoRemember == HttpDoFrom({StatusOK, 503}, RememberBodies)

SelectTickRemember ==
    /\ SelectTickStep
    /\ prevResp' = resp
    /\ prevEmitted' = emitted
    /\ prevErr' = IF lastResult = "none" THEN "none" ELSE err
    /\ UNCHANGED <<fires, starts>>

NextRemember ==
    \/ TickerFire \/ SignalArrive \/ SelectTickRemember \/ SelectSig
    \/ NewRequest \/ HttpDoRemember \/ CheckStatus \/ DecodeBody \/ GetLogger
    \/ RangeAircraft \/ Return

SpecRemember == Init /\ [][NextRemember]_vars

\* The start of main (part_000:35-49), before the loop

\* What an initialiser returns to main.  tracing.InitTracing and logs.InitLogs have
\* the same four return paths: the subsystem is disabled (a no-op function, nil), the
\* exporter cannot be created (a no-op function, nil), resource.New fails (nil, err),
\* and success (the provider's shutdown, nil).
InitOutcomes == {"disabled", "exporterFailed", "resourceFailed", "ok"}

InitResult(outcome) ==
    IF outcome = "resourceFailed"
       THEN [shutdown |-> "nil", err |-> TRUE]
       ELSE [shutdown |-> "func", err |-> FALSE]

NotCalled == [shutdown |-> "unset", err |-> FALSE]

\* main before tracing.InitTracing: no provider, no ticker, no signal channel yet.
InitStartup ==
    /\ loop = "InitTracing"
    /\ tickerC = 0
    /\ sigChan = <<>>
    /\ ctxDone = FALSE
    /\ loggerProvider = "nil"
    /\ flightDataURL \in {"valid", "invalid"}
    /\ pc = "idle"
    /\ resp = NoResp
    /\ data = NoData
    /\ idx = 0
    /\ emitted = <<>>
    /\ err = "nil"
    /\ decodeAttempted = FALSE
    /\ lastResult = "none"
    /\ sigDuringRun = FALSE
    /\ sigDelivered = FALSE
    /\ inFlight = 0
    /\ doCalls = 0
    /\ bodyState = "none"
    /\ fires = 0
    /\ starts = 0
    /\ prevResp = NoResp
    /\ prevEmitted = <<>>
    /\ prevErr = "none"
    /\ tracingInit = NotCalled
    /\ logsInit = NotCalled
    /\ exitStatus = "running"
    /\ lokiCall = NoCall

\* shutdownTracing, err := tracing.InitTracing(); an error is logged and main goes
\* on; defer shutdownTracing() only records the function value.
InitTracing ==
    /\ loop = "InitTracing"
    /\ \E outcome \in InitOutcomes : tracingInit' = InitResult(outcome)
    /\ loop' = "InitLogs"
    /\ UNCHANGED <<tickerC, sigChan, ctxDone, loggerProvider, flightDataURL, lastResult,
                   sigDuringRun, sigDelivered, inFlight, logsInit, exitStatus>>
    /\ UNCHANGED pipeVars
    /\ UNCHANGED histVars
    /\ UNCHANGED lokiCall

\* shutdownLogs, err := logs.InitLogs(), which stores the logger provider on success
\* only; then the ticker and the signal channel are made and main enters its loop.
InitLogs ==
    /\ loop = "InitLogs"
    /\ \E outcome \in InitOutcomes :
          /\ logsInit' = InitResult(outcome)
          /\ loggerProvider' = IF outcome = "ok" THEN "set" ELSE "nil"
    /\ loop' = "Idle"
    /\ UNCHANGED <<tickerC, sigChan, ctxDone, flightDataURL, lastResult,
                   sigDuringRun, sigDelivered, inFlight, tracingInit, exitStatus>>
    /\ UNCHANGED pipeVars
    /\ UNCHANGED histVars
    /\ UNCHANGED lokiCall

NextStartup ==
    \/ InitTracing \/ InitLogs
    \/ TickerFire \/ SignalArrive \/ SelectTick \/ SelectSig
    \/ NewRequest \/ HttpDoCounted \/ CheckStatus \/ DecodeBody \/ GetLogger
    \/ RangeAircraft \/ Return

SpecStartup == InitStartup /\ [][NextStartup]_vars

\* loki.Client.PushLogs (loki.go:67-168), one action per step.  The package is
\* called from nowhere in main or flightdata: the call is modelled on its own.

\* LogEntry values: two with the same labels and one with other labels.
LogEntries ==
    {[Timestamp |-> 1700, Labels |-> [job |-> "adsb"], Line |-> "abc123"],
     [Timestamp |-> 1701, Labels |-> [job |-> "adsb"], Line |-> "def456"],
     [Timestamp |-> 1700, Labels |-> [job |-> "dump1090"], Line |-> "abc123"]}

\* The status codes c.client.Do can hand back.
LokiStatuses == {200, 204, 304, 400, 401, 500}

StatusUnauthorized == 401
StatusBadRequest == 400

\* The stream built for one entry (loki.go:85-90): its labels and one value, the
\* pair of fmt.Sprintf("%d", entry.Timestamp.UnixNano()) and the line.
StreamOf(entry) ==
    [stream |-> entry.Labels, values |-> <<<<ToString(entry.Timestamp), entry.Line>>>>]

\* streams after the loop of loki.go:83-92.
BuildStreams(entries) == [i \in 1..Len(entries) |-> StreamOf(entries[i])]

otherVars == <<loopVars, pipeVars, histVars, mainVars>>

\* PushLogs is called on a client (made by NewClient or NewClientWithAuth) with a
\* slice of entries: an empty slice returns nil at once (78-81), otherwise the
\* streams are built (83-96).
PushLogs ==
    /\ lokiCall.pc = "none"
    /\ \E url \in {"valid", "invalid"}, auth \in BOOLEAN,
          entries \in SeqsUpTo(LogEntries, MaxEntries) :
          lokiCall' = [lokiCall EXCEPT
                          !.url = url, !.auth = auth, !.entries = entries,
                          !.streams = IF entries = <<>> THEN <<>> ELSE BuildStreams(entries),
                          !.pc = IF entries = <<>> THEN "done" ELSE "marshal"]
    /\ UNCHANGED otherVars

\* data, err := json.Marshal(payload) (98-103); json.Marshal is library code, its
\* error return an outcome the code handles.
LokiMarshal ==
    /\ lokiCall.pc = "marshal"
    /\ \E ok \in BOOLEAN :
          lokiCall' = IF ok
             THEN [lokiCall EXCEPT !.pc = "newRequest"]
             ELSE [lokiCall EXCEPT !.pc = "done", !.marshalOk = FALSE,
                                   !.err = "failed to marshal payload"]
    /\ UNCHANGED otherVars

\* http.NewRequestWithContext(ctx, "POST", url, data), the headers and the basic
\* authentication when tenantID and password are both set (112-134).
LokiNewRequest ==
    /\ lokiCall.pc = "newRequest"
    /\ lokiCall' = IF lokiCall.url = "invalid"
          THEN [lokiCall EXCEPT !.pc = "done", !.requestOk = FALSE,
                                !.err = "failed to create request"]
          ELSE [lokiCall EXCEPT !.pc = "do",
                   !.req = [method |-> "POST", url |-> "/loki/api/v1/push",
                            body |-> lokiCall.streams, basicAuth |-> lokiCall.auth]]
    /\ UNCHANGED otherVars

\* resp, err := c.client.Do(req) (136-145): the request goes out once; the send
\* fails, or a response comes back.
LokiDo ==
    /\ lokiCall.pc = "do"
    /\ \/ lokiCall' = [lokiCall EXCEPT !.posts = Append(@, lokiCall.req), !.pc = "done",
                                       !.sendOk = FALSE, !.err = "failed to send request"]
       \/ \E st \in LokiStatuses :
             lokiCall' = [lokiCall EXCEPT !.posts = Append(@, lokiCall.req),
                                          !.pc = "checkStatus", !.status = st]
    /\ UNCHANGED otherVars

\* Mutant of LokiCheckStatus: only a status above 400 is an error.
LokiCheckStatusAbove400 ==
    /\ lokiCall.pc = "checkStatus"
    /\ lokiCall' = [lokiCall EXCEPT !.pc = "done",
          !.err = IF lokiCall.status = StatusUnauthorized THEN "authentication failed"
                  ELSE IF lokiCall.status > StatusBadRequest THEN "request failed with status"
                  ELSE "nil"]
    /\ UNCHANGED otherVars

\* The status checks and the return (152-167).
LokiCheckStatus ==
    /\ lokiCall.pc = "checkStatus"
    /\ lokiCall' = [lokiCall EXCEPT !.pc = "done",
          !.err = IF lokiCall.status = StatusUnauthorized THEN "authentication failed"
                  ELSE IF lokiCall.status >= StatusBadRequest THEN "request failed with status"
                  ELSE "nil"]
    /\ UNCHANGED otherVars

NextPushLogs == PushLogs \/ LokiMarshal \/ LokiNewRequest \/ LokiDo \/ LokiCheckStatus

SpecPushLogs == Init /\ [][NextPushLogs]_vars

\* cancel is called nowhere but in main's deferred call.
CtxDoneOnlyAfterReturn == ctxDone => loop = "Stopped"

TypeOK ==
    /\ loop \in {"Idle", "Running", "Stopped"}
    /\ tickerC \in 0..TickerChanCap
    /\ Len(sigChan) <= SigChanCap
    /\ idx \in 0..MaxAircraft
    /\ Len(emitted) <= MaxAircraft
    /\ (loop = "Running") = (pc # "idle")

----
\* Claims

\* C1: at most one invocation of FetchAndPushLogs is in flight in every reachable
\* state, and one is in flight exactly while the loop is Running; a fire of the
\* ticker during an invocation only fills ticker.C.
C1_AtMostOneInFlight ==
    /\ inFlight \in {0, 1}
    /\ (inFlight = 1) = (loop = "Running")

\* C1 witness: the ticker has fired while an invocation is emitting records.
C1_Witness == loop = "Running" /\ pc = "range" /\ idx = 1 /\ tickerC = 1

\* C2: the loop leaves Running only by the return of the invocation, and then to Idle
\* whatever the result; in Idle a buffered fire can always be serviced, whatever the
\* previous result was.
C2_ReturnGoesIdle ==
    /\ [][(loop = "Running" /\ loop' # "Running") => (pc = "return" /\ loop' = "Idle")]_vars
    /\ []((loop = "Idle" /\ tickerC > 0) => ENABLED SelectTick)

\* C2 witness: a new invocation has started after one that returned an error.
C2_Witness == lastResult = "error" /\ loop = "Running" /\ pc = "newRequest"

\* C3 as claimed: once a signal has been delivered during an invocation, no further
\* invocation starts.
C3_NoFurtherInvocation == [][sigDuringRun => ~(loop = "Idle" /\ loop' = "Running")]_vars

\* C3 amended: once a signal has been delivered during an invocation, the loop still
\* leaves Running only by the return of the invocation, to Idle; in Idle it starts a
\* further invocation only by servicing a buffered fire, and with no fire buffered the
\* signal case is the only one select can take.
C3_StopsUnlessFirePending ==
    /\ [][(sigDuringRun /\ loop = "Running" /\ loop' # "Running")
             => (pc = "return" /\ loop' = "Idle")]_vars
    /\ [][(sigDuringRun /\ loop = "Idle" /\ loop' = "Running") => tickerC > 0]_vars
    /\ []((sigDuringRun /\ loop = "Idle" /\ tickerC = 0)
             => (ENABLED SelectSig /\ ~ENABLED SelectTick))

\* C3 witness: a signal arrived during an invocation, the invocation went on to emit
\* its records and returned, and the loop stopped with no fire buffered.
C3_Witness ==
    sigDuringRun /\ loop = "Stopped" /\ lastResult = "ok" /\ Len(emitted) = 2 /\ tickerC = 0

\* C4: once a signal has been delivered, the loop eventually is Stopped (under FairSpec).
C4_SignalLeadsToStopped == sigDelivered ~> (loop = "Stopped")

\* C4 witness: the signal was delivered during an invocation that then failed, and
\* the loop has stopped.
C4_Witness == sigDuringRun /\ loop = "Stopped" /\ lastResult = "error"

\* C5: the loop enters Stopped only from Idle (no invocation in flight) and with a
\* signal buffered or the context cancelled; once Stopped it stays Stopped, starts
\* no invocation and emits no record.
C5_StoppedFromIdleAndTerminal ==
    /\ [][(loop # "Stopped" /\ loop' = "Stopped")
             => (loop = "Idle" /\ pc = "idle" /\ inFlight = 0 /\ (Len(sigChan) > 0 \/ ctxDone))]_vars
    /\ [][loop = "Stopped"
             => (loop' = "Stopped" /\ pc' = pc /\ inFlight' = inFlight /\ emitted' = emitted)]_vars

\* C5 witness: the loop stopped on a signal that arrived while it was Idle, with a
\* fire still buffered that is never serviced.
C5_Witness == loop = "Stopped" /\ ~sigDuringRun /\ tickerC = 1 /\ lastResult # "none"

\* The invocation has returned or is about to return / decoding succeeded in it.
Returning == pc \in {"return", "idle"}
DecodedOk == decodeAttempted /\ err # "failed to decode dump1090-fa data"

\* The records emitted are those of the first n objects of the response's aircraft
\* array, in document order: record i carries the hex of object i in its body and in
\* its attributes, and is the record built from the decoded entry i.
EmittedArePrefix(n) ==
    /\ Len(emitted) = n
    /\ n <= Len(resp.body.aircraft)
    /\ \A i \in 1..n :
          /\ emitted[i].Body.hex = resp.body.aircraft[i].hex
          /\ emitted[i].Attrs[2] = KVString("aircraft.hex", resp.body.aircraft[i].hex.s)
          /\ emitted[i] = BuildRecord(data.Aircraft[i], UnixTimestamp(data.Now))

\* C6 as claimed: an invocation that decoded a document with N entries returns no
\* error having emitted exactly the N records, in order.
C6_EmitsAllOfDocument ==
    (Returning /\ DecodedOk) => (err = "nil" /\ EmittedArePrefix(Len(resp.body.aircraft)))

\* C6 amended: that holds when the log sink is initialised and no json.Marshal fails;
\* a document with no entries yields no record and no error in every case.
C6_EmitsAllWhenSinkSetAndMarshalOk ==
    /\ (Returning /\ DecodedOk /\ loggerProvider = "set" /\ err # "failed to marshal aircraft data")
          => (err = "nil" /\ EmittedArePrefix(Len(resp.body.aircraft)))
    /\ (Returning /\ DecodedOk /\ Len(resp.body.aircraft) = 0)
          => (err = "nil" /\ emitted = <<>>)

\* C6 witness: two different entries were emitted in document order, without error.
C6_Witness ==
    /\ pc = "idle" /\ lastResult = "ok" /\ Len(emitted) = 2
    /\ resp.body.aircraft[1].hex = Str("def456")
    /\ resp.body.aircraft[2].hex = Str("abc123")

\* C7: after a response whose status is not 200 has been checked, the invocation is
\* returning with the status error, has not called Decode and has emitted nothing;
\* its return leaves the loop Idle with the tick logged as failed.
C7_Non200Rejected ==
    /\ []((resp.status \in StatusCodes \ {StatusOK} /\ pc # "checkStatus")
            => (/\ Returning
                /\ err = "HTTP request failed with status"
                /\ ~decodeAttempted
                /\ emitted = <<>>
                /\ data = NoData))
    /\ [][(resp.status \in StatusCodes \ {StatusOK} /\ pc = "return" /\ pc' # "return")
            => (loop' = "Idle" /\ lastResult' = "error")]_vars

\* C7 witness: a 204 with a well-formed two-aircraft body has been rejected and the
\* loop is Idle again.
C7_Witness ==
    /\ loop = "Idle" /\ pc = "idle" /\ lastResult = "error"
    /\ resp.status = 204 /\ resp.body.wellFormed /\ Len(resp.body.aircraft) = 2

\* C8 as claimed: an invocation that returns an error has emitted no record.
C8_ErrorEmitsNothing == (Returning /\ err # "nil") => emitted = <<>>

\* C8 amended: an invocation that returns an error of request creation, fetch, status
\* or decode has emitted no record; one that returns the error of json.Marshal at
\* entry k has emitted the k-1 records before it.
C8_ErrorBeforeRangeEmitsNothing ==
    /\ (Returning /\ err \notin {"nil", "failed to marshal aircraft data"}) => emitted = <<>>
    /\ (Returning /\ err = "failed to marshal aircraft data")
          => (Len(emitted) = idx /\ idx < Len(data.Aircraft))

\* C8 witness: the second of two aircraft objects made Decode fail; the tick emitted
\* nothing, not even the first.
C8_Witness ==
    /\ pc = "idle" /\ err = "failed to decode dump1090-fa data" /\ emitted = <<>>
    /\ Len(resp.body.aircraft) = 2 /\ resp.body.aircraft[2].alt_baro = Obj
    /\ resp.body.aircraft[1].alt_baro # Obj

\* C9: when json.Marshal fails at entry k = idx + 1, the invocation returns that
\* error at once, the records of entries 1..k-1 are the ones emitted, in document
\* order, and none is added or taken back afterwards in that tick.
C9_MarshalFailureKeepsPrefix ==
    /\ [](err = "failed to marshal aircraft data"
            => (Returning /\ idx < Len(data.Aircraft) /\ EmittedArePrefix(idx)))
    /\ [][(err = "failed to marshal aircraft data" /\ err' = err) => emitted' = emitted]_vars

\* C9 witness: json.Marshal failed at the second of two entries; the first record
\* stays emitted.
C9_Witness ==
    /\ pc = "idle" /\ err = "failed to marshal aircraft data"
    /\ Len(data.Aircraft) = 2 /\ Len(emitted) = 1

\* The attribute keys of a record / the attribute with a key is the given one.
AttrKeys(record) == {record.Attrs[j].key : j \in 1..Len(record.Attrs)}
HasAttr(record, kv) == \E j \in 1..Len(record.Attrs) : record.Attrs[j] = kv

\* C10 (under SpecEveryAircraft): every emitted record has service, aircraft.hex and
\* aircraft.type, and has aircraft.flight, .lat, .lon, .alt_baro, .squawk exactly
\* when that field of its entry is not "" (strings) or not 0 (numbers), with the
\* field's value; no other key, no key twice.
C10_AttributesIffNonZero ==
    \A i \in 1..Len(emitted) :
        LET a == data.Aircraft[i]
            r == emitted[i]
            keys == AttrKeys(r)
        IN  /\ HasAttr(r, KVString("service", "adsb"))
            /\ HasAttr(r, KVString("aircraft.hex", a.Hex))
            /\ HasAttr(r, KVString("aircraft.type", a.Type))
            /\ ("aircraft.flight" \in keys) = (a.Flight # "")
            /\ ("aircraft.lat" \in keys) = (a.Lat # 0)
            /\ ("aircraft.lon" \in keys) = (a.Lon # 0)
            /\ ("aircraft.alt_baro" \in keys) = (a.AltBaro # "")
            /\ ("aircraft.squawk" \in keys) = (a.Squawk # "")
            /\ a.Flight # "" => HasAttr(r, KVString("aircraft.flight", a.Flight))
            /\ a.Lat # 0 => HasAttr(r, KVFloat64("aircraft.lat", a.Lat))
            /\ a.Lon # 0 => HasAttr(r, KVFloat64("aircraft.lon", a.Lon))
            /\ a.AltBaro # "" => HasAttr(r, KVString("aircraft.alt_baro", a.AltBaro))
            /\ a.Squawk # "" => HasAttr(r, KVString("aircraft.squawk", a.Squawk))
            /\ keys \subseteq {"service", "aircraft.hex", "aircraft.type", "aircraft.flight",
                               "aircraft.lat", "aircraft.lon", "aircraft.alt_baro",
                               "aircraft.squawk"}
            /\ Cardinality(keys) = Len(r.Attrs)

\* C10 witness: the object of the spec's scenario with lat 0 and lon 0 written out
\* (and a numeric alt_baro of 0) was emitted: no lat, no lon, alt_baro "0".
C10_Witness ==
    /\ Len(emitted) = 1
    /\ resp.body.aircraft[1].lat = Num(0) /\ resp.body.aircraft[1].lon = Num(0)
    /\ resp.body.aircraft[1].alt_baro = Num(0)
    /\ AttrKeys(emitted[1]) = {"service", "aircraft.hex", "aircraft.type", "aircraft.alt_baro"}
    /\ HasAttr(emitted[1], KVString("aircraft.alt_baro", "0"))

\* The alt_baro token of the one-aircraft document that Decode was called on.
AltBaroDecoded == decodeAttempted /\ Len(resp.body.aircraft) = 1
AltBaroToken == resp.body.aircraft[1].alt_baro

\* Decode failed on the document, the tick with it, and nothing was emitted.
TickFailedInDecode ==
    /\ Returning
    /\ err = "failed to decode dump1090-fa data"
    /\ data = NoData
    /\ emitted = <<>>
    /\ (pc = "idle" => lastResult = "error")

\* C11 as claimed (under SpecEveryAltBaro): Decode succeeds on every document whose
\* alt_baro is a string, a number or null, and fails, the tick with it, when it is
\* an object or an array.
C11_DecodesEveryScalar ==
    AltBaroDecoded =>
        /\ AltBaroToken.k \in {"null", "str", "num"} => DecodedOk
        /\ AltBaroToken.k \in {"obj", "arr"} => TickFailedInDecode

\* What does hold of C11: the same for the numbers in the range of a float64; a
\* number outside it makes Decode fail like an object does.
C11_DecodesEveryScalarInRange ==
    AltBaroDecoded =>
        /\ (AltBaroToken.k \in {"null", "str", "num"} /\ AltBaroToken.s # "1e999") => DecodedOk
        /\ (AltBaroToken.k \in {"obj", "arr"} \/ AltBaroToken = NumLit("1e999"))
              => TickFailedInDecode

\* The decoded AltBaro of that document.
AltBaroValue == data.Aircraft[1].AltBaro

\* The renderings of a number of |n| tenths rounded to zero decimal places: the
\* nearer whole number, either neighbour on a tie, with or without the sign when
\* the result is zero.
RoundedRenderings(n) ==
    LET q == Abs(n) \div 10
        r == Abs(n) % 10
        ms == IF r < 5 THEN {q} ELSE IF r > 5 THEN {q + 1} ELSE {q, q + 1}
    IN  {IF n < 0 /\ m # 0 THEN ToString(-m) ELSE ToString(m) : m \in ms}
        \cup {"-0" : m \in {x \in ms : x = 0 /\ n < 0}}

\* C12 as claimed (under SpecEveryAltBaro): null decodes to "", a string to itself,
\* an integer to its base-10 digits, a fractional number to its rounding to zero
\* decimal places.
C12_CanonicalString ==
    (AltBaroDecoded /\ DecodedOk) =>
        LET tok == AltBaroToken
            v == AltBaroValue
        IN  /\ tok.k = "null" => v = ""
            /\ tok.k = "str" => v = tok.s
            /\ (tok.k = "num" /\ tok.s = "" /\ tok.n % 10 = 0) => v = ToString(tok.n \div 10)
            /\ (tok.k = "num" /\ tok.s = "" /\ tok.n % 10 # 0) => v \in RoundedRenderings(tok.n)
            /\ tok = NumLit("9007199254740993") => v = "9007199254740993"
            /\ tok = NumLit("-0") => v \in {"0", "-0"}

\* The spec's boundary values of C12 do decode as it says.
C12_BoundaryValues ==
    (AltBaroDecoded /\ DecodedOk) =>
        /\ AltBaroToken = Str("ground") => AltBaroValue = "ground"
        /\ AltBaroToken = Num(250000) => AltBaroValue = "25000"
        /\ AltBaroToken = Num(250007) => AltBaroValue = "25001"
        /\ AltBaroToken = Null => AltBaroValue = ""

\* C13 as claimed (under SpecEveryAltBaro): a number that parses as an int64 is
\* rendered by the integer path, and the float rendering is the result only when the
\* integer parse fails.
C13_IntegerPathFirst ==
    (AltBaroDecoded /\ DecodedOk /\ AltBaroToken.k = "num") =>
        /\ UnmarshalInt64Ok(AltBaroToken) => AltBaroValue = RenderInt64(AltBaroToken)
        /\ ~UnmarshalInt64Ok(AltBaroToken) => AltBaroValue = RenderFloat64(AltBaroToken)

\* The order of the steps of FetchAndPushLogs.
PcRank(p) ==
    CASE p = "idle" -> 0
      [] p = "newRequest" -> 1
      [] p = "do" -> 2
      [] p = "checkStatus" -> 3
      [] p = "decode" -> 4
      [] p = "getLogger" -> 5
      [] p = "range" -> 6
      [] p = "return" -> 7

\* C15: an invocation calls httpClient.Do at most once; its steps only move forward
\* (no step is entered again once left, and after an error only the return follows);
\* and a new request is made only by the invocation that a serviced fire of the
\* ticker starts, from Idle.
C15_OneGetNoRetry ==
    [][ /\ doCalls' <= 1
        /\ (doCalls' # doCalls /\ pc # "idle") => (pc = "do" /\ doCalls = 0 /\ doCalls' = 1)
        /\ (pc' # pc /\ pc # "idle" /\ pc # "return") => PcRank(pc') > PcRank(pc)
        /\ (pc = "return" /\ pc' # pc) => pc' = "idle"
        /\ (err # "nil" /\ pc # "idle") => (pc = "return" /\ err' = err /\ doCalls' = doCalls)
        /\ (pc = "idle" /\ pc' # "idle") =>
              (loop = "Idle" /\ tickerC > 0 /\ tickerC' = tickerC - 1
               /\ pc' = "newRequest" /\ doCalls' = 0)
      ]_vars

\* C15 witness: the tick after a failed one has made its one call of Do.
C15_Witness ==
    lastResult = "error" /\ pc = "checkStatus" /\ doCalls = 1 /\ bodyState = "open"

\* C16: every record an invocation has emitted carries the whole seconds of the now
\* member of the document of that invocation's response, so all of them carry the
\* same timestamp, and every one carries the severity info.
C16_SameTimestampInfo ==
    \A i \in 1..Len(emitted) :
        /\ emitted[i].Timestamp = UnixTimestamp(DecodeFloat64(resp.body.now).v)
        /\ emitted[i].Timestamp = emitted[1].Timestamp
        /\ emitted[i].Severity = "SeverityInfo"

\* C16 witness: two different entries of a document of time 1701.9 were emitted, both
\* with the timestamp 1701.
C16_Witness ==
    /\ pc = "idle" /\ Len(emitted) = 2
    /\ resp.body.now = Num(17019)
    /\ emitted[1].Body.hex # emitted[2].Body.hex
    /\ emitted[1].Timestamp = 1701 /\ emitted[2].Timestamp = 1701

\* The invocation obtained a response from httpClient.Do.
GotResponse == resp # NoResp

\* The exit paths of an invocation that obtained a response, after its return.
C17_ExitNon200 == pc = "idle" /\ err = "HTTP request failed with status"
C17_ExitDecode == pc = "idle" /\ err = "failed to decode dump1090-fa data"
C17_ExitNoSink == pc = "idle" /\ err = "nil" /\ DecodedOk /\ loggerProvider = "nil"
C17_ExitMarshal == pc = "idle" /\ err = "failed to marshal aircraft data"
C17_ExitSuccess == pc = "idle" /\ err = "nil" /\ loggerProvider = "set" /\ Len(emitted) > 0

\* C17: the body of a response is open exactly while the invocation that obtained it
\* runs, and closed once that invocation has returned, whatever it returned: an
\* invocation without a response has no body to close.  Each of the five exit paths
\* after a response ends with the body closed.
C17_BodyClosedOnReturn ==
    /\ (pc = "idle" /\ GotResponse) => bodyState = "closed"
    /\ (pc # "idle" /\ GotResponse) => bodyState = "open"
    /\ ~GotResponse => bodyState = "none"
    /\ (C17_ExitNon200 \/ C17_ExitDecode \/ C17_ExitNoSink \/ C17_ExitMarshal \/ C17_ExitSuccess)
          => (GotResponse /\ bodyState = "closed")

\* C17 witness: an invocation returned a serialization failure after one record, and
\* the body of its response is closed.
C17_Witness == C17_ExitMarshal /\ Len(emitted) = 1 /\ bodyState = "closed"

\* C20: with no logger provider set (logs.GetLogger returns nil), an invocation that
\* decoded its document never enters the loop over the aircraft, returns nil having
\* emitted nothing, whatever the number of entries, and main records a success.
C20_NilLoggerIsSuccess ==
    loggerProvider = "nil" =>
        /\ pc # "range"
        /\ emitted = <<>>
        /\ (Returning /\ DecodedOk) => err = "nil"
        /\ (pc = "idle" /\ DecodedOk) => lastResult = "ok"

\* C20 witness: without a logger provider, a document of two entries was fetched and
\* decoded, and the tick ended as a success with nothing emitted.
C20_Witness ==
    /\ loggerProvider = "nil" /\ pc = "idle" /\ DecodedOk
    /\ Len(data.Aircraft) = 2 /\ emitted = <<>> /\ lastResult = "ok"

\* C18 (under SpecCounted): the invocations started and the fires still waiting in
\* ticker.C never outnumber the fires of the ticker; before the first fire nothing
\* has started and no invocation runs; and an invocation starts only by a step that
\* takes a fire out of ticker.C while the loop is Idle.
C18_StartsOnlyOnServicedFire ==
    /\ [](starts + tickerC <= fires)
    /\ [](fires = 0 => (starts = 0 /\ pc = "idle" /\ loop # "Running" /\ lastResult = "none"))
    /\ [][ (pc = "idle" /\ pc' # "idle") =>
              (loop = "Idle" /\ loop' = "Running" /\ tickerC > 0 /\ tickerC' = tickerC - 1
               /\ starts' = starts + 1) ]_vars
    /\ [][ starts' # starts => (pc = "idle" /\ pc' = "newRequest") ]_vars

\* C18 witness: after three fires the second invocation has just started and no fire
\* waits: one fire found ticker.C full and was dropped.
C18_Witness ==
    fires = 3 /\ starts = 2 /\ tickerC = 0 /\ pc = "newRequest" /\ lastResult # "none"

\* Two invocations, one after the other, have returned.
TwoTicksDone == pc = "idle" /\ prevErr # "none"

MarshalFailed(e) == e = "failed to marshal aircraft data"

\* C19 (under SpecRemember): nothing of an invocation reaches the next one.  When
\* two invocations in a row received the same response, the records of the one are
\* the records of the other as far as both got, and they emitted the same records
\* and returned the same result when json.Marshal failed in neither; and when both
\* succeeded with a logger set, an aircraft object listed in both documents has a
\* record in both ticks, with the same body and attributes.
C19_NoStateBetweenTicks ==
    TwoTicksDone =>
        /\ resp = prevResp =>
              /\ \A i \in 1..Len(emitted) :
                    i <= Len(prevEmitted) => emitted[i] = prevEmitted[i]
              /\ (~MarshalFailed(err) /\ ~MarshalFailed(prevErr))
                    => (emitted = prevEmitted /\ err = prevErr)
        /\ (err = "nil" /\ prevErr = "nil" /\ loggerProvider = "set") =>
              /\ Len(emitted) = Len(resp.body.aircraft)
              /\ Len(prevEmitted) = Len(prevResp.body.aircraft)
              /\ \A i \in 1..Len(emitted), j \in 1..Len(prevEmitted) :
                    resp.body.aircraft[i] = prevResp.body.aircraft[j] =>
                        /\ emitted[i].Body = prevEmitted[j].Body
                        /\ emitted[i].Attrs = prevEmitted[j].Attrs

\* C19 witness: two ticks in a row received the same document of two aircraft and
\* each emitted the same two records.
C19_Witness ==
    /\ TwoTicksDone /\ resp = prevResp /\ err = "nil" /\ prevErr = "nil"
    /\ Len(emitted) = 2 /\ emitted = prevEmitted

\* C21 (under SpecCounted): ticker.C never holds more than one fire; a fire during an
\* invocation leaves exactly one waiting, however many came before it; and the step
\* that starts an invocation empties ticker.C, so that after an invocation which
\* outlasted several fires one invocation starts at once and the one after it waits
\* for a new fire.
C21_FiresCoalesced ==
    /\ [](tickerC <= TickerChanCap)
    /\ [][ (fires' # fires /\ loop = "Running") => (tickerC' = 1 /\ starts' = starts) ]_vars
    /\ [][ (pc = "idle" /\ pc' # "idle") => (tickerC = 1 /\ tickerC' = 0) ]_vars
    /\ [][ (pc = "return" /\ pc' = "idle") => tickerC' = tickerC ]_vars

\* C21 witness: two fires came while the first invocation was running and one of
\* them waits in ticker.C at its return.
C21_Witness ==
    starts = 1 /\ fires = 3 /\ tickerC = 1 /\ pc = "return"

\* An initialiser returned an error to main.
InitErrored == tracingInit.err \/ logsInit.err

\* C22 as claimed (under SpecStartup): the function value each initialiser returned
\* can be called, whatever its return path, and once an initialiser has returned an
\* error main still reaches its loop and, stopped by a signal, returns normally.
C22_InitErrorShutsDownNormally ==
    /\ tracingInit.shutdown \in {"unset", "func"}
    /\ logsInit.shutdown \in {"unset", "func"}
    /\ (InitErrored /\ loop = "Stopped") => exitStatus = "returned"

\* What does hold of C22: main never ends before its loop, an initialiser's error
\* leaves the subsystem out (no logger provider) and the loop runs all the same; the
\* error comes with a nil function, and main's return then ends in a panic, exactly
\* when an initialiser had returned an error.
C22_ContinuesThenPanicsAtReturn ==
    /\ (exitStatus # "running") = (loop = "Stopped")
    /\ tracingInit.err = (tracingInit.shutdown = "nil")
    /\ logsInit.err = (logsInit.shutdown = "nil")
    /\ logsInit.err => loggerProvider = "nil"
    /\ loop = "Stopped" => ((exitStatus = "panic") = InitErrored)

\* The call of PushLogs has returned.
PushLogsReturned == lokiCall.pc = "done"

\* The request that went out is a POST to the push endpoint whose body lists one
\* stream per entry, in the order of the entries, each with the labels of its entry
\* and one value, the entry's time and line.
OnePostOfEntries ==
    /\ Len(lokiCall.posts) = 1
    /\ lokiCall.posts[1].method = "POST"
    /\ Len(lokiCall.posts[1].body) = Len(lokiCall.entries)
    /\ \A i \in 1..Len(lokiCall.entries) :
          /\ lokiCall.posts[1].body[i].stream = lokiCall.entries[i].Labels
          /\ lokiCall.posts[1].body[i].values =
                <<<<ToString(lokiCall.entries[i].Timestamp), lokiCall.entries[i].Line>>>>

\* Building or sending the request failed, or the status is 400 or higher.
PushFailed ==
    \/ ~lokiCall.marshalOk \/ ~lokiCall.requestOk \/ ~lokiCall.sendOk
    \/ lokiCall.status >= StatusBadRequest

ErrorIffPushFailed ==
    /\ (lokiCall.err # "nil") = PushFailed
    /\ (lokiCall.status = StatusUnauthorized) = (lokiCall.err = "authentication failed")

\* C23 as claimed (under SpecPushLogs): a call with no entries returns nil and sends
\* nothing; a call with entries sends exactly one POST with one stream per entry in
\* order, and returns an error exactly when building or sending failed or the status
\* is 400 or higher, a 401 being reported as an authentication failure.
C23_OnePostPerCall ==
    PushLogsReturned =>
        /\ lokiCall.entries = <<>> => (lokiCall.posts = <<>> /\ lokiCall.err = "nil")
        /\ lokiCall.entries # <<>> => (OnePostOfEntries /\ ErrorIffPushFailed)

\* C23 amended: the POST goes out once when the request could be built, and not at
\* all when json.Marshal or http.NewRequestWithContext failed; never more than once.
C23_OnePostWhenBuilt ==
    /\ Len(lokiCall.posts) <= 1
    /\ PushLogsReturned =>
          /\ lokiCall.entries = <<>> => (lokiCall.posts = <<>> /\ lokiCall.err = "nil")
          /\ lokiCall.entries # <<>> =>
                /\ ErrorIffPushFailed
                /\ (lokiCall.marshalOk /\ lokiCall.requestOk) => OnePostOfEntries
                /\ ~(lokiCall.marshalOk /\ lokiCall.requestOk) => lokiCall.posts = <<>>

\* C23 witness: two entries with the same labels were pushed as two streams in one
\* POST, answered 400, and the call returned the status error.
C23_Witness ==
    /\ PushLogsReturned /\ Len(lokiCall.entries) = 2
    /\ lokiCall.entries[1].Labels = lokiCall.entries[2].Labels
    /\ lokiCall.entries[1] # lokiCall.entries[2]
    /\ OnePostOfEntries /\ lokiCall.status = 400
    /\ lokiCall.err = "request failed with status"

====
